---- MODULE Spec2Model ----
(***************************************************************************)
(* Model of src/client/ua_client_connect.c (open62541): the client-side    *)
(* connection establishment and teardown.  The C functions are sequential  *)
(* code that calls each other; every function is cut into steps at its     *)
(* calls and at its writes of client->state, a program counter `pc` and a  *)
(* call `stack` of return labels sequence the steps, and the collaborators *)
(* outside the file (transport, service dispatcher, codec) are             *)
(* nondeterministic choices over their possible outcomes.                  *)
(***************************************************************************)
EXTENDS Integers, Sequences, FiniteSets, TLC

(* ----------------------------------------------------------------------- *)
(* Bounds of the model                                                     *)
(* ----------------------------------------------------------------------- *)
MaxNow == 4          \* the monotonic clock runs from 0 to MaxNow
MaxTimeout == 1      \* config.timeout is drawn from 1..MaxTimeout
MaxLifetime == 2     \* 0.75 * revisedLifetime of an OPN response: 1..MaxLifetime
MaxPending == 1      \* async services the application may queue itself
MaxEndpoints == 2    \* endpoints in a GetEndpointsResponse (selection spec)
MaxTokens == 2       \* user token policies per endpoint (selection spec)

(* ----------------------------------------------------------------------- *)
(* Enumerations of the program                                             *)
(* ----------------------------------------------------------------------- *)
UA_CLIENTSTATE_DISCONNECTED == 0
UA_CLIENTSTATE_WAITING_FOR_ACK == 1
UA_CLIENTSTATE_CONNECTED == 2
UA_CLIENTSTATE_SECURECHANNEL == 3
UA_CLIENTSTATE_SESSION_RENEWED == 4
UA_CLIENTSTATE_SESSION == 5

UA_MESSAGESECURITYMODE_INVALID == 0
UA_MESSAGESECURITYMODE_NONE == 1
UA_MESSAGESECURITYMODE_SIGN == 2
UA_MESSAGESECURITYMODE_SIGNANDENCRYPT == 3

UA_USERTOKENTYPE_ANONYMOUS == 0
UA_USERTOKENTYPE_USERNAME == 1
UA_USERTOKENTYPE_CERTIFICATE == 2
UA_USERTOKENTYPE_ISSUEDTOKEN == 3

\* UA_ConnectionState
UA_CONNECTION_CLOSED == "closed"
UA_CONNECTION_OPENING == "opening"
UA_CONNECTION_ESTABLISHED == "established"

\* Status codes.  BadUnexpected stands for any other non-good status a
\* collaborator returns (a decode error, a send error, a service fault).
Good == "Good"
BadConnectionClosed == "BadConnectionClosed"
BadServerNotConnected == "BadServerNotConnected"
BadInternalError == "BadInternalError"
BadTimeout == "BadTimeout"
BadOutOfMemory == "BadOutOfMemory"
BadUnexpected == "BadUnexpected"

\* Policy URIs: the client implements a subset of {PolicyNone, PolicyBasic};
\* PolicyOther is a URI no client of the model implements.
PolicyNone == "http://opcfoundation.org/UA/SecurityPolicy#None"
PolicyBasic == "http://opcfoundation.org/UA/SecurityPolicy#Basic256Sha256"
PolicyOther == "http://opcfoundation.org/UA/SecurityPolicy#Other"
binaryTransport == "http://opcfoundation.org/UA-Profile/Transport/uatcp-uasc-uabinary"
OtherTransport == "http://opcfoundation.org/UA-Profile/Transport/https-uabinary"

\* config.userIdentityToken.content.decoded.type
TypeNull == "NULL"
TypeAnonymous == "ANONYMOUSIDENTITYTOKEN"
TypeUserName == "USERNAMEIDENTITYTOKEN"
TypeX509 == "X509IDENTITYTOKEN"
TypeIssued == "ISSUEDIDENTITYTOKEN"

\* The all-zero UA_UserTokenPolicy and UA_EndpointDescription.
ZeroToken == [policy |-> "", type |-> 0]
ZeroEndpoint == [profile |-> "", mode |-> 0, policy |-> "", tokens |-> <<>>]

VARIABLES
    state,              \* client->state
    authToken,          \* client->authenticationToken is non-null
    requestId,          \* client->requestId
    requestHandle,      \* client->requestHandle
    nextChannelRenewal, \* client->nextChannelRenewal
    connectStatus,      \* client->connectStatus
    pending,            \* number of outstanding async services
    chanPolicy,         \* client->channel.securityPolicy (its URI, "" = NULL)
    chanMode,           \* client->channel.securityMode
    connState,          \* client->connection.state
    socketOpen,         \* the transport of client->connection holds its socket
    cfgEndpoint,        \* client->config.endpoint
    cfgTokenPolicy,     \* client->config.userTokenPolicy
    cfgSecurityMode,    \* client->config.securityMode
    cfgPolicyUri,       \* client->config.securityPolicyUri
    cfgIdentity,        \* client->config.userIdentityToken...decoded.type
    policies,           \* URIs of client->config.securityPolicies
    timeout,            \* client->config.timeout
    now,                \* UA_DateTime_nowMonotonic()
    pc,                 \* the step that runs next ("idle": no call is running)
    stack,              \* return labels of the calls in progress
    retval,             \* the status the last returning function returned
    renew,              \* openSecureChannel's parameter
    getEndpoints,       \* UA_Client_connectInternal's local
    maxDate,            \* openSecureChannel's local
    maxTime,            \* UA_Client_connectSession's local
    nowTime,            \* UA_Client_connectSession's local
    iterTimeout,        \* the timeout last handed to UA_Client_run_iterate
    op,                 \* the public operation called last
    prevOp,             \* the public operation called before it
    entryState,         \* client->state when `op` was called
    entryConn,          \* client->connection.state when `op` was called
    calls,              \* invocations of UA_Client_connectInternal within `op`
    log,                \* what `op` did so far: messages, closes, observer calls
    epArray             \* the endpoints of the last GetEndpointsResponse

clientVars == <<state, authToken, requestId, requestHandle, nextChannelRenewal,
                connectStatus, pending>>
chanVars == <<chanPolicy, chanMode>>
connVars == <<connState, socketOpen>>
selVars == <<cfgEndpoint, cfgTokenPolicy, epArray>>
cfgVars == <<cfgSecurityMode, cfgPolicyUri, cfgIdentity, policies, timeout>>
localVars == <<renew, getEndpoints, maxDate, maxTime, nowTime, iterTimeout>>
ctlVars == <<pc, stack, retval>>
callVars == <<op, prevOp, entryState, entryConn, calls>>
vars == <<clientVars, chanVars, connVars, selVars, cfgVars, localVars, ctlVars,
          callVars, log, now>>

(* ----------------------------------------------------------------------- *)
(* The log of one public operation                                         *)
(* ----------------------------------------------------------------------- *)
\* An event: what happened (e), its value (s: the state written or shown to
\* the observer, the request id of a message, the number of services
\* cancelled) and the number of async services outstanding at that moment.
Ev(e, s) == [e |-> e, s |-> s, p |-> pending]

RECURSIVE Filter(_, _)
Filter(lg, kinds) ==
    IF lg = <<>> THEN <<>>
    ELSE IF Head(lg).e \in kinds THEN <<Head(lg)>> \o Filter(Tail(lg), kinds)
    ELSE Filter(Tail(lg), kinds)

Kinds(lg) == [i \in DOMAIN lg |-> lg[i].e]
Values(lg) == [i \in DOMAIN lg |-> lg[i].s]
Count(lg, kind) == Len(Filter(lg, {kind}))

(* ----------------------------------------------------------------------- *)
(* Calls and returns                                                       *)
(* ----------------------------------------------------------------------- *)
Idle == pc = "idle"

Goto(label) == /\ pc' = label
               /\ UNCHANGED <<stack, retval>>

GotoWith(label, rv) == /\ pc' = label
                       /\ retval' = rv
                       /\ UNCHANGED stack

\* Call the function entered at `entry`; it returns to `ret`.
Call(entry, ret) == /\ pc' = entry
                    /\ stack' = <<ret>> \o stack
                    /\ UNCHANGED retval

\* Call after setting the caller's own retval.
CallWith(entry, ret, rv) == /\ pc' = entry
                            /\ stack' = <<ret>> \o stack
                            /\ retval' = rv

Return(rv) == /\ pc' = Head(stack)
              /\ stack' = Tail(stack)
              /\ retval' = rv

\* A public operation starts: a fresh log, the entry state remembered.
Enter(name, entry) ==
    /\ Idle
    /\ pc' = entry
    /\ stack' = <<"idle">>
    /\ retval' = Good
    /\ op' = name
    /\ prevOp' = IF op = "disconnect" THEN "disconnect" ELSE "other"
    /\ entryState' = state
    /\ entryConn' = connState
    /\ calls' = 0
    /\ log' = <<>>
    /\ epArray' = <<>>
    /\ getEndpoints' = FALSE
    /\ maxDate' = 0
    /\ maxTime' = 0
    /\ nowTime' = 0
    /\ iterTimeout' = 0

(* ----------------------------------------------------------------------- *)
(* setClientState and the direct writes of client->state                   *)
(* ----------------------------------------------------------------------- *)
\* A setClientState that calls the observer whether or not the state changes.
setClientState_AlwaysCalls(lg, s) == lg \o <<Ev("state", s), Ev("obs", s)>>

\* The log after setClientState(client, s): a change of the state is
\* followed by the call of config.stateCallback with the new state.
setClientState(lg, s) ==
    IF state # s THEN lg \o <<Ev("state", s), Ev("obs", s)>> ELSE lg

\* The log after the assignment client->state = s.
directWrite(lg, s) ==
    IF state # s THEN Append(lg, Ev("state", s)) ELSE lg

(* ----------------------------------------------------------------------- *)
(* Collaborators outside the file                                          *)
(* ----------------------------------------------------------------------- *)
\* __UA_Client_Service: a synchronous request and its response.  Of the
\* request counters only the writes of this file are modelled.
ServiceLog(lg, kind) == Append(lg, Ev(kind, 0))

\* A request id taken without the increment.
NextRequestId_NoIncrement == requestId

\* Lines 181 and 689: ++client->requestId.
NextRequestId == requestId + 1

(* ----------------------------------------------------------------------- *)
(* UA_Client_disconnect                                                    *)
(* ----------------------------------------------------------------------- *)
\* A session close that is sent on any connected client.
SessionEstablished_FromConnected == state >= UA_CLIENTSTATE_CONNECTED

\* "Is a session established?"
SessionEstablished == state >= UA_CLIENTSTATE_SESSION

\* A channel close that is skipped for a client in state SecureChannel.
ChannelEstablished_AboveSecureChannel == state > UA_CLIENTSTATE_SECURECHANNEL

\* "Is a secure channel established?"
ChannelEstablished == state >= UA_CLIENTSTATE_SECURECHANNEL

\* A close that is skipped only for an opening connection.
TransportToClose_ClosedToo == connState # UA_CONNECTION_OPENING

\* The transport's close is due.
TransportToClose ==
    /\ connState # UA_CONNECTION_CLOSED
    /\ connState # UA_CONNECTION_OPENING

\* A cancellation that leaves the outstanding requests in place.
AsyncServicesLeft_NoneRemoved == pending

\* The services UA_Client_AsyncService_removeAll leaves outstanding.
AsyncServicesLeft == 0

\* if(state >= SESSION) { state = SECURECHANNEL; sendCloseSession(); }
UA_Client_disconnect_session ==
    /\ pc = "disc"
    /\ IF SessionEstablished
       THEN /\ state' = UA_CLIENTSTATE_SECURECHANNEL
            /\ log' = ServiceLog(directWrite(log, UA_CLIENTSTATE_SECURECHANNEL),
                                 "CloseSession")
       ELSE UNCHANGED <<state, log>>
    /\ Goto("disc_channel")
    /\ UNCHANGED <<authToken, requestId, requestHandle, nextChannelRenewal, connectStatus, pending, chanVars,
                   connVars, selVars, cfgVars, localVars, callVars, now>>

\* A disconnect that keeps the authentication token.
TokenAfterDisconnect_Kept == authToken

\* Line 704: UA_NodeId_deleteMembers leaves the null NodeId.
TokenAfterDisconnect == FALSE

\* A disconnect that keeps counting the request handles.
RequestHandleAfterReset_Kept == requestHandle

\* Line 705: client->requestHandle = 0.
RequestHandleAfterReset == 0

\* The token and the request handle are reset;
\* if(state >= SECURECHANNEL) { state = CONNECTED; sendCloseSecureChannel(); }
UA_Client_disconnect_channel ==
    /\ pc = "disc_channel"
    /\ authToken' = TokenAfterDisconnect
    /\ IF ChannelEstablished
       THEN /\ state' = UA_CLIENTSTATE_CONNECTED
            /\ requestHandle' = RequestHandleAfterReset + 1
            /\ requestId' = NextRequestId
            /\ log' = Append(directWrite(log, UA_CLIENTSTATE_CONNECTED),
                             Ev("CLO", NextRequestId))
            /\ chanPolicy' = ""
       ELSE /\ requestHandle' = RequestHandleAfterReset
            /\ UNCHANGED <<state, requestId, log, chanPolicy>>
    /\ Goto("disc_transport")
    /\ UNCHANGED <<nextChannelRenewal, connectStatus, pending, chanMode, connVars,
                   selVars, cfgVars, localVars, callVars, now>>

\* if(connection.state != CLOSED && connection.state != OPENING) close();
UA_Client_disconnect_transport ==
    /\ pc = "disc_transport"
    /\ IF TransportToClose
       THEN /\ connState' = UA_CONNECTION_CLOSED
            /\ socketOpen' = FALSE
            /\ log' = Append(log, Ev("close", 0))
       ELSE UNCHANGED <<connState, socketOpen, log>>
    /\ Goto("disc_async")
    /\ UNCHANGED <<clientVars, chanVars, selVars, cfgVars, localVars, callVars, now>>

\* UA_Client_AsyncService_removeAll(BADSHUTDOWN); UA_SecureChannel_deleteMembers
UA_Client_disconnect_async ==
    /\ pc = "disc_async"
    /\ pending' = AsyncServicesLeft
    /\ log' = Append(log, Ev("cancel", pending))
    /\ chanPolicy' = ""
    /\ Goto("disc_state")
    /\ UNCHANGED <<state, authToken, requestId, requestHandle, nextChannelRenewal,
                   connectStatus, chanMode, connVars, selVars, cfgVars, localVars,
                   callVars, now>>

\* setClientState(DISCONNECTED); return GOOD.  The callers inside the file
\* discard the status, so only a public call sees it.
UA_Client_disconnect_state ==
    /\ pc = "disc_state"
    /\ state' = UA_CLIENTSTATE_DISCONNECTED
    /\ log' = setClientState(log, UA_CLIENTSTATE_DISCONNECTED)
    /\ Return(IF Head(stack) = "idle" THEN Good ELSE retval)
    /\ UNCHANGED <<authToken, requestId, requestHandle, nextChannelRenewal,
                   connectStatus, pending, chanVars, connVars, selVars, cfgVars,
                   localVars, callVars, now>>

UA_Client_disconnect ==
    \/ UA_Client_disconnect_session
    \/ UA_Client_disconnect_channel
    \/ UA_Client_disconnect_transport
    \/ UA_Client_disconnect_async
    \/ UA_Client_disconnect_state

\* The steps of UA_Client_disconnect.
DiscPCs == {"disc", "disc_channel", "disc_transport", "disc_async", "disc_state"}

(* ----------------------------------------------------------------------- *)
(* HelAckHandshake and processACKResponse                                  *)
(* ----------------------------------------------------------------------- *)
\* What the transport does to itself when an operation on it fails: it stays
\* as it is, or it closes (and releases its socket).
TransportAfterFailure(closes) ==
    IF closes
    THEN /\ connState' = UA_CONNECTION_CLOSED
         /\ socketOpen' = FALSE
    ELSE UNCHANGED connVars

\* Lines 72-117: get a buffer, encode and send the HEL message.
HelAckHandshake_send ==
    /\ pc = "hel"
    /\ \/ /\ Return(BadOutOfMemory)          \* getSendBuffer or encoding fails
          /\ UNCHANGED <<connVars, log>>
       \/ /\ \E closes \in BOOLEAN : TransportAfterFailure(closes)
          /\ Return(BadConnectionClosed)     \* conn->send fails
          /\ UNCHANGED log
       \/ /\ log' = Append(log, Ev("HEL", 0))
          /\ Goto("hel_recv")
          /\ UNCHANGED connVars
    /\ UNCHANGED <<clientVars, chanVars, selVars, cfgVars, localVars, callVars, now>>

\* Lines 119-121 with processACKResponse: the blocking receive of one chunk.
HelAckHandshake_receive ==
    /\ pc = "hel_recv"
    /\ \/ \* the ACK is decoded and processed: the connection is established
          /\ connState' = UA_CONNECTION_ESTABLISHED
          /\ Return(Good)
          /\ UNCHANGED <<socketOpen, log>>
       \/ \* decoding or processing the ACK fails: processACKResponse
          \* disconnects the client (lines 53-58, 63-68)
          /\ log' = Append(log, Ev("BadACK", 0))
          /\ Call("disc", "hel_status")
          /\ UNCHANGED connVars
       \/ \* no chunk: the receive times out or the connection fails
          /\ \E closes \in BOOLEAN : TransportAfterFailure(closes)
          /\ \E rv \in {BadConnectionClosed, BadUnexpected} : GotoWith("hel_fail", rv)
          /\ UNCHANGED log
    /\ UNCHANGED <<clientVars, chanVars, selVars, cfgVars, localVars, callVars, now>>

\* The status of the blocking receive whose callback rejected the chunk: the
\* callback returns nothing, so the status is the receive's own.
HelAckHandshake_status ==
    /\ pc = "hel_status"
    /\ \E rv \in {Good, BadConnectionClosed, BadUnexpected} :
          IF rv = Good THEN Return(Good) ELSE GotoWith("hel_fail", rv)
    /\ UNCHANGED <<clientVars, chanVars, connVars, selVars, cfgVars, localVars,
                   callVars, log, now>>

\* Lines 122-128: if(retval == BADCONNECTIONCLOSED) client->state =
\* DISCONNECTED; UA_Client_disconnect(client);
HelAckHandshake_fail ==
    /\ pc = "hel_fail"
    /\ IF retval = BadConnectionClosed
       THEN /\ state' = UA_CLIENTSTATE_DISCONNECTED
            /\ log' = directWrite(log, UA_CLIENTSTATE_DISCONNECTED)
       ELSE UNCHANGED <<state, log>>
    /\ Call("disc", "hel_ret")
    /\ UNCHANGED <<authToken, requestId, requestHandle, nextChannelRenewal,
                   connectStatus, pending, chanVars, connVars, selVars, cfgVars,
                   localVars, callVars, now>>

\* Line 129: return retval.
HelAckHandshake_return ==
    /\ pc = "hel_ret"
    /\ Return(retval)
    /\ UNCHANGED <<clientVars, chanVars, connVars, selVars, cfgVars, localVars,
                   callVars, log, now>>

HelAckHandshake ==
    \/ HelAckHandshake_send
    \/ HelAckHandshake_receive
    \/ HelAckHandshake_status
    \/ HelAckHandshake_fail
    \/ HelAckHandshake_return

(* ----------------------------------------------------------------------- *)
(* openSecureChannel                                                       *)
(* ----------------------------------------------------------------------- *)
\* A renewal that is skipped only until one tick before the deadline.
ChannelStillValid_OneTickEarly == renew /\ nextChannelRenewal > now + 1

\* Line 144: "Check if sc is still valid".
ChannelStillValid == renew /\ nextChannelRenewal > now

\* A deadline pushed by one timeout only.
RenewalAfterSend_OneTimeout == now + timeout

\* Lines 195-196: the renewal deadline while the OPN response is awaited.
RenewalAfterSend == now + 2 * timeout

\* Lines 143-199.
openSecureChannel_send ==
    /\ pc = "osc"
    /\ IF ChannelStillValid
       THEN /\ Return(Good)
            /\ UNCHANGED <<state, requestId, nextChannelRenewal, maxDate, log>>
       ELSE IF connState # UA_CONNECTION_ESTABLISHED
       THEN /\ Return(BadServerNotConnected)
            /\ UNCHANGED <<state, requestId, nextChannelRenewal, maxDate, log>>
       ELSE \/ \* UA_SecureChannel_generateLocalNonce fails
               /\ Return(BadUnexpected)
               /\ UNCHANGED <<state, requestId, nextChannelRenewal, maxDate, log>>
            \/ \* sending the OPN message fails: disconnect, return retval
               /\ requestId' = NextRequestId
               /\ log' = Append(log, Ev("nonce", 0))
               /\ CallWith("disc", "osc_ret", BadUnexpected)
               /\ UNCHANGED <<state, nextChannelRenewal, maxDate>>
            \/ \* the OPN message is sent
               /\ requestId' = NextRequestId
               /\ log' = log \o <<Ev("nonce", 0), Ev("OPN", NextRequestId)>>
               /\ nextChannelRenewal' = RenewalAfterSend
               /\ maxDate' = now + timeout
               /\ Goto("osc_recv")
               /\ UNCHANGED state
    /\ UNCHANGED <<authToken, requestHandle, connectStatus, pending, chanVars,
                   connVars, selVars, cfgVars, renew, getEndpoints, maxTime,
                   nowTime, iterTimeout, callVars, now>>

\* A loop that never gives up waiting for the OPN response.
ResponseDeadlinePassed_Never == FALSE

\* Line 203: if(maxDate < UA_DateTime_nowMonotonic()).
ResponseDeadlinePassed == maxDate < now

\* Lines 202-208: one round of the loop that receives the OPN response.
\* receiveServiceResponse processes the response (the dispatcher lifts the
\* state to SECURECHANNEL and sets the renewal deadline from the revised
\* lifetime), or something else or nothing, or fails.
openSecureChannel_receive ==
    /\ pc = "osc_recv"
    /\ IF ResponseDeadlinePassed
       THEN /\ Return(BadConnectionClosed)
            /\ maxDate' = 0
            /\ UNCHANGED <<state, nextChannelRenewal, log>>
       ELSE \/ /\ state' = IF state < UA_CLIENTSTATE_SECURECHANNEL
                          THEN UA_CLIENTSTATE_SECURECHANNEL ELSE state
               /\ log' = IF state < UA_CLIENTSTATE_SECURECHANNEL
                         THEN setClientState(log, UA_CLIENTSTATE_SECURECHANNEL)
                         ELSE log
               /\ \E life \in 1..MaxLifetime : nextChannelRenewal' = now + life
               /\ Return(Good)
               /\ maxDate' = 0
            \/ /\ IF state < UA_CLIENTSTATE_SECURECHANNEL
                  THEN Goto("osc_recv") /\ UNCHANGED maxDate
                  ELSE Return(Good) /\ maxDate' = 0
               /\ UNCHANGED <<state, nextChannelRenewal, log>>
            \/ /\ \E rv \in {BadConnectionClosed, BadUnexpected} : Return(rv)
               /\ maxDate' = 0
               /\ UNCHANGED <<state, nextChannelRenewal, log>>
    /\ UNCHANGED <<authToken, requestId, requestHandle, connectStatus, pending,
                   chanVars, connVars, selVars, cfgVars, renew, getEndpoints, maxTime,
                   nowTime, iterTimeout, callVars, now>>

\* Line 188: return retval after the disconnect.
openSecureChannel_return ==
    /\ pc = "osc_ret"
    /\ Return(retval)
    /\ UNCHANGED <<clientVars, chanVars, connVars, selVars, cfgVars, localVars,
                   callVars, log, now>>

openSecureChannel ==
    \/ openSecureChannel_send
    \/ openSecureChannel_receive
    \/ openSecureChannel_return

(* ----------------------------------------------------------------------- *)
(* getSecurityPolicy, endpointUnconfigured, selectEndpoint                 *)
(* ----------------------------------------------------------------------- *)
\* A lookup that finds an implementation of every policy.
getSecurityPolicy_AlwaysFound(policyUri) == TRUE

\* getSecurityPolicy(client, policyUri) returns a policy (not NULL).
getSecurityPolicy(policyUri) == policyUri \in policies

\* A test that looks at the bytes of config.userTokenPolicy only.
endpointUnconfigured_TokenOnly == cfgTokenPolicy = ZeroToken

\* Both config.endpoint and config.userTokenPolicy are all-zero bytes.
endpointUnconfigured == cfgEndpoint = ZeroEndpoint /\ cfgTokenPolicy = ZeroToken

\* An endpoint filter that ignores the security mode the configuration
\* requires.
EndpointRejected_AnyMode(endpoint) ==
    \/ endpoint.profile # "" /\ endpoint.profile # binaryTransport
    \/ endpoint.mode < 1 \/ endpoint.mode > 3
    \/ cfgPolicyUri # "" /\ cfgPolicyUri # endpoint.policy
    \/ ~getSecurityPolicy(endpoint.policy)

\* Lines 263-292: the `continue`s of the endpoint loop.
EndpointRejected(endpoint) ==
    \/ endpoint.profile # "" /\ endpoint.profile # binaryTransport
    \/ endpoint.mode < 1 \/ endpoint.mode > 3
    \/ cfgSecurityMode > 0 /\ cfgSecurityMode # endpoint.mode
    \/ cfgPolicyUri # "" /\ cfgPolicyUri # endpoint.policy
    \/ ~getSecurityPolicy(endpoint.policy)

\* A token filter that accepts an anonymous policy whatever the configured
\* identity token.
TokenRejected_AnonymousAlways(userToken) ==
    \/ userToken.policy # "" /\ ~getSecurityPolicy(userToken.policy)
    \/ userToken.type > 3
    \/ userToken.type = UA_USERTOKENTYPE_USERNAME /\ cfgIdentity # TypeUserName
    \/ userToken.type = UA_USERTOKENTYPE_CERTIFICATE /\ cfgIdentity # TypeX509
    \/ userToken.type = UA_USERTOKENTYPE_ISSUEDTOKEN /\ cfgIdentity # TypeIssued

\* Lines 302-336: the `continue`s of the token loop.
TokenRejected(userToken) ==
    \/ userToken.policy # "" /\ ~getSecurityPolicy(userToken.policy)
    \/ userToken.type > 3
    \/ /\ userToken.type = UA_USERTOKENTYPE_ANONYMOUS
       /\ cfgIdentity # TypeAnonymous
       /\ cfgIdentity # TypeNull
    \/ userToken.type = UA_USERTOKENTYPE_USERNAME /\ cfgIdentity # TypeUserName
    \/ userToken.type = UA_USERTOKENTYPE_CERTIFICATE /\ cfgIdentity # TypeX509
    \/ userToken.type = UA_USERTOKENTYPE_ISSUEDTOKEN /\ cfgIdentity # TypeIssued

\* Lines 298-386: the token loop from index j; the index it breaks at with
\* tokenFound, or 0 when it runs to the end.
RECURSIVE TokenLoop(_, _)
TokenLoop(tokens, j) ==
    IF j > Len(tokens) THEN 0
    ELSE IF TokenRejected(tokens[j]) THEN TokenLoop(tokens, j + 1)
    ELSE j

\* Lines 259-390: the endpoint loop from index i.
RECURSIVE EndpointLoop(_, _, _)
EndpointLoop(endpointArray, i, endpointFound) ==
    IF i > Len(endpointArray)
    THEN [endpointFound |-> endpointFound, tokenFound |-> FALSE, i |-> 0, j |-> 0]
    ELSE IF EndpointRejected(endpointArray[i])
    THEN EndpointLoop(endpointArray, i + 1, endpointFound)
    ELSE LET j == TokenLoop(endpointArray[i].tokens, 1) IN
         IF j # 0
         THEN [endpointFound |-> TRUE, tokenFound |-> TRUE, i |-> i, j |-> j]
         ELSE EndpointLoop(endpointArray, i + 1, TRUE)

\* Lines 341-343: temp = *endpoint without its userIdentityTokens.
WithoutTokens(endpoint) == [endpoint EXCEPT !.tokens = <<>>]

\* selectEndpoint after a good GetEndpointsResponse: the status and the
\* config it leaves.  copyFail: 0 both copies succeed, 1 the copy of the
\* endpoint fails, 2 the copy of the token policy fails (both were deleted
\* before the copies).
selectEndpoint(endpointArray, copyFail) ==
    LET r == EndpointLoop(endpointArray, 1, FALSE) IN
    IF r.tokenFound
    THEN LET endpoint == endpointArray[r.i] IN
         IF copyFail = 1
         THEN [retval |-> BadOutOfMemory, endpoint |-> ZeroEndpoint,
               token |-> ZeroToken]
         ELSE IF copyFail = 2
         THEN [retval |-> BadOutOfMemory, endpoint |-> WithoutTokens(endpoint),
               token |-> ZeroToken]
         ELSE [retval |-> Good, endpoint |-> WithoutTokens(endpoint),
               token |-> endpoint.tokens[r.j]]
    ELSE [retval |-> BadInternalError, endpoint |-> cfgEndpoint,
          token |-> cfgTokenPolicy]

\* Endpoints a server of the model returns to a connecting client.
AnonToken == [policy |-> "", type |-> UA_USERTOKENTYPE_ANONYMOUS]
UserToken == [policy |-> PolicyBasic, type |-> UA_USERTOKENTYPE_USERNAME]
EndpointNone == [profile |-> binaryTransport, mode |-> UA_MESSAGESECURITYMODE_NONE,
                 policy |-> PolicyNone, tokens |-> <<UserToken, AnonToken>>]
EndpointSign == [profile |-> "", mode |-> UA_MESSAGESECURITYMODE_SIGN,
                 policy |-> PolicyBasic, tokens |-> <<AnonToken>>]
EndpointEncrypt == [profile |-> binaryTransport,
                    mode |-> UA_MESSAGESECURITYMODE_SIGNANDENCRYPT,
                    policy |-> PolicyBasic, tokens |-> <<AnonToken>>]
EndpointUserOnly == [profile |-> binaryTransport, mode |-> UA_MESSAGESECURITYMODE_NONE,
                     policy |-> PolicyNone, tokens |-> <<UserToken>>]
EndpointNoneSigned == [profile |-> binaryTransport,
                       mode |-> UA_MESSAGESECURITYMODE_SIGN,
                       policy |-> PolicyNone, tokens |-> <<AnonToken>>]
ServerEndpointArrays ==
    { <<>>, <<EndpointNone>>, <<EndpointSign>>, <<EndpointEncrypt>>,
      <<EndpointUserOnly>>, <<EndpointUserOnly, EndpointEncrypt, EndpointNone>>,
      <<EndpointNoneSigned>> }

(* ----------------------------------------------------------------------- *)
(* UA_Client_connectTCPSecureChannel                                       *)
(* ----------------------------------------------------------------------- *)
\* An early return that is taken only with a session.
AlreadyConnected_SessionOnly == state >= UA_CLIENTSTATE_SESSION

\* Lines 412-413 and 584-585: the client is connected already.
AlreadyConnected == state >= UA_CLIENTSTATE_CONNECTED

\* A cleanup that returns the status and leaves the client as it is.
connectTCPSecureChannel_cleanup_NoDisconnect(rv) == GotoWith("tcp_ret", rv)

\* Lines 494-496: cleanup: UA_Client_disconnect(client); return retval;
connectTCPSecureChannel_cleanup(rv) == CallWith("disc", "tcp_ret", rv)

\* Lines 412-455: the early return, the reset of the channel, the binding
\* of its security policy.
UA_Client_connectTCPSecureChannel_init ==
    /\ pc = "tcp"
    /\ IF AlreadyConnected
       THEN /\ Return(Good)
            /\ UNCHANGED <<requestId, chanVars>>
       ELSE /\ requestId' = 0
            /\ chanMode' = IF cfgEndpoint.mode = UA_MESSAGESECURITYMODE_INVALID
                           THEN UA_MESSAGESECURITYMODE_NONE ELSE cfgEndpoint.mode
            /\ IF chanPolicy = ""
               THEN LET sps == IF cfgEndpoint.policy = ""
                               THEN PolicyNone ELSE cfgEndpoint.policy IN
                    IF ~getSecurityPolicy(sps)
                    THEN /\ connectTCPSecureChannel_cleanup(BadInternalError)
                         /\ UNCHANGED chanPolicy
                    ELSE \/ \* UA_SecureChannel_setSecurityPolicy fails
                            /\ connectTCPSecureChannel_cleanup(BadUnexpected)
                            /\ UNCHANGED chanPolicy
                         \/ /\ chanPolicy' = sps
                            /\ GotoWith("tcp_open", Good)
               ELSE /\ GotoWith("tcp_open", Good)
                    /\ UNCHANGED chanPolicy
    /\ UNCHANGED <<state, authToken, requestHandle, nextChannelRenewal,
                   connectStatus, pending, connVars, selVars, cfgVars, localVars,
                   callVars, log, now>>

\* Lines 458-475: config.connectionFunc opens the transport (state OPENING)
\* or fails; then the HEL/ACK handshake.
UA_Client_connectTCPSecureChannel_open ==
    /\ pc = "tcp_open"
    /\ \/ /\ connState' = UA_CONNECTION_CLOSED
          /\ socketOpen' = FALSE
          /\ connectTCPSecureChannel_cleanup(BadConnectionClosed)
          /\ UNCHANGED log
       \/ /\ connState' = UA_CONNECTION_OPENING
          /\ socketOpen' = TRUE
          /\ log' = Append(log, Ev("open", 0))
          /\ Call("hel", "tcp_hel")
    /\ UNCHANGED <<clientVars, chanVars, selVars, cfgVars, localVars, callVars, now>>

\* Lines 476-485: after the handshake: setClientState(CONNECTED) and
\* openSecureChannel(client, false).
UA_Client_connectTCPSecureChannel_connected ==
    /\ pc = "tcp_hel"
    /\ IF retval # Good
       THEN /\ connectTCPSecureChannel_cleanup(retval)
            /\ UNCHANGED <<state, log, renew>>
       ELSE /\ state' = UA_CLIENTSTATE_CONNECTED
            /\ log' = setClientState(log, UA_CLIENTSTATE_CONNECTED)
            /\ renew' = FALSE
            /\ Call("osc", "tcp_osc")
    /\ UNCHANGED <<authToken, requestId, requestHandle, nextChannelRenewal,
                   connectStatus, pending, chanVars, connVars, selVars, cfgVars,
                   getEndpoints, maxDate, maxTime, nowTime, iterTimeout, callVars, now>>

\* Lines 486-492: after openSecureChannel.
UA_Client_connectTCPSecureChannel_opened ==
    /\ pc = "tcp_osc"
    /\ IF retval # Good
       THEN connectTCPSecureChannel_cleanup(retval)
       ELSE Return(Good)
    /\ UNCHANGED <<clientVars, chanVars, connVars, selVars, cfgVars, localVars,
                   callVars, log, now>>

\* Line 496: return retval after the cleanup's disconnect.
UA_Client_connectTCPSecureChannel_return ==
    /\ pc = "tcp_ret"
    /\ Return(retval)
    /\ UNCHANGED <<clientVars, chanVars, connVars, selVars, cfgVars, localVars,
                   callVars, log, now>>

UA_Client_connectTCPSecureChannel ==
    \/ UA_Client_connectTCPSecureChannel_init
    \/ UA_Client_connectTCPSecureChannel_open
    \/ UA_Client_connectTCPSecureChannel_connected
    \/ UA_Client_connectTCPSecureChannel_opened
    \/ UA_Client_connectTCPSecureChannel_return

(* ----------------------------------------------------------------------- *)
(* UA_Client_connectSession                                                *)
(* ----------------------------------------------------------------------- *)
\* A timeout that is taken already at the deadline.
SessionDeadlinePassed_AtDeadline == maxTime <= nowTime

\* Line 527: if(maxTime < nowTime).
SessionDeadlinePassed == maxTime < nowTime

\* Line 532: the UA_UInt16 handed to UA_Client_run_iterate.
RunIterateTimeout == (maxTime - nowTime) % 65536

\* Lines 501-524: createSessionAsync or activateSessionAsync, the deadline.
UA_Client_connectSession_request ==
    /\ pc = "css"
    /\ IF state < UA_CLIENTSTATE_SECURECHANNEL
       THEN /\ Return(BadInternalError)
            /\ UNCHANGED <<pending, nowTime, maxTime, log>>
       ELSE \/ /\ Return(BadUnexpected)
               /\ UNCHANGED <<pending, nowTime, maxTime, log>>
            \/ /\ pending' = pending + 1
               /\ log' = Append(log, Ev(IF authToken THEN "ActivateSession"
                                        ELSE "CreateSession", 0))
               /\ nowTime' = now
               /\ maxTime' = now + timeout
               /\ GotoWith("css_loop", Good)
    /\ UNCHANGED <<state, authToken, requestId, requestHandle, nextChannelRenewal,
                   connectStatus, chanVars, connVars, selVars, cfgVars, renew,
                   getEndpoints, maxDate, iterTimeout, callVars, now>>

\* Lines 526-543: one round of the loop.  UA_Client_run_iterate fails, or
\* processes nothing, or the CreateSession response (its callback stores the
\* authentication token and sends ActivateSession), or the ActivateSession
\* response (its callback sets the state SESSION), or a failed response
\* (its callback stores the failure in connectStatus).
UA_Client_connectSession_iterate ==
    /\ pc = "css_loop"
    /\ IF state = UA_CLIENTSTATE_SESSION
       THEN /\ Return(retval)
            /\ nowTime' = 0
            /\ maxTime' = 0
            /\ UNCHANGED <<state, authToken, connectStatus, pending, iterTimeout, log>>
       ELSE IF SessionDeadlinePassed
       THEN /\ Return(BadTimeout)
            /\ nowTime' = 0
            /\ maxTime' = 0
            /\ UNCHANGED <<state, authToken, connectStatus, pending, iterTimeout, log>>
       ELSE /\ iterTimeout' = RunIterateTimeout
            /\ \/ /\ \E rv \in {BadConnectionClosed, BadUnexpected} : Return(rv)
                  /\ nowTime' = 0
                  /\ maxTime' = 0
                  /\ UNCHANGED <<state, authToken, connectStatus, pending, log>>
               \/ /\ IF connectStatus # Good
                     THEN /\ Return(connectStatus)
                          /\ nowTime' = 0
                          /\ maxTime' = 0
                     ELSE /\ Goto("css_loop")
                          /\ nowTime' = now
                          /\ UNCHANGED maxTime
                  /\ UNCHANGED <<state, authToken, connectStatus, pending, log>>
               \/ /\ ~authToken /\ pending > 0
                  /\ authToken' = TRUE
                  /\ connectStatus' = Good
                  /\ log' = Append(log, Ev("ActivateSession", 0))
                  /\ nowTime' = now
                  /\ Goto("css_loop")
                  /\ UNCHANGED <<state, pending, maxTime>>
               \/ /\ authToken /\ pending > 0
                  /\ state' = UA_CLIENTSTATE_SESSION
                  /\ log' = setClientState(log, UA_CLIENTSTATE_SESSION)
                  /\ connectStatus' = Good
                  /\ pending' = pending - 1
                  /\ nowTime' = now
                  /\ Goto("css_loop")
                  /\ UNCHANGED <<authToken, maxTime>>
               \/ /\ pending > 0
                  /\ connectStatus' = BadUnexpected
                  /\ pending' = pending - 1
                  /\ Return(BadUnexpected)
                  /\ nowTime' = 0
                  /\ maxTime' = 0
                  /\ UNCHANGED <<state, authToken, log>>
    /\ UNCHANGED <<requestId, requestHandle, nextChannelRenewal, chanVars, connVars,
                   selVars, cfgVars, renew, getEndpoints, maxDate, callVars, now>>

UA_Client_connectSession ==
    \/ UA_Client_connectSession_request
    \/ UA_Client_connectSession_iterate

(* ----------------------------------------------------------------------- *)
(* UA_Client_connectInternal                                               *)
(* ----------------------------------------------------------------------- *)
\* A cleanup that returns the status without the disconnect.
connectInternal_cleanup_NoDisconnect(rv) == GotoWith("ci_ret", rv)

\* Lines 631-633: cleanup: UA_Client_disconnect(client); return retval;
connectInternal_cleanup(rv) == CallWith("disc", "ci_ret", rv)

\* Line 258: "Found %lu endpoints", the first statement of selectEndpoint
\* after a good GetEndpointsResponse.
FoundLog(lg, endpointArray) == Append(lg, Ev("Found", Len(endpointArray)))

\* Lines 616-617: the selected endpoint's policy is not the channel's.
PolicyDiffers(endpoint) == endpoint.policy # chanPolicy

\* Lines 584-599: the early return, getEndpoints, the call of
\* UA_Client_connectTCPSecureChannel.
UA_Client_connectInternal_start ==
    /\ pc = "ci"
    /\ calls' = calls + 1
    /\ IF AlreadyConnected
       THEN /\ Return(Good)
            /\ UNCHANGED getEndpoints
       ELSE /\ getEndpoints' = endpointUnconfigured
            /\ Call("tcp", "ci_tcp")
    /\ UNCHANGED <<clientVars, chanVars, connVars, selVars, cfgVars, renew, maxDate,
                   maxTime, nowTime, iterTimeout, op, prevOp, entryState, entryConn,
                   log, now>>

\* Lines 600-607 and 625: after UA_Client_connectTCPSecureChannel.
UA_Client_connectInternal_channel ==
    /\ pc = "ci_tcp"
    /\ IF retval # Good
       THEN connectInternal_cleanup(retval)
       ELSE IF getEndpoints
       THEN Goto("ci_select")
       ELSE Call("css", "ci_session")
    /\ UNCHANGED <<clientVars, chanVars, connVars, selVars, cfgVars, localVars,
                   callVars, log, now>>

\* Lines 610-625: selectEndpoint (the GetEndpoints service, then the
\* selection), the reconnect when the policy differs: UA_Client_disconnect
\* and then UA_Client_connectInternal again, whose status is returned.
UA_Client_connectInternal_select ==
    /\ pc = "ci_select"
    /\ \/ \* the service fails
          /\ \E rv \in {BadConnectionClosed, BadUnexpected} :
                connectInternal_cleanup(rv)
          /\ log' = ServiceLog(log, "GetEndpoints")
          /\ UNCHANGED selVars
       \/ \E endpointArray \in ServerEndpointArrays, copyFail \in 0..2 :
             LET r == selectEndpoint(endpointArray, copyFail) IN
             /\ epArray' = endpointArray
             /\ log' = FoundLog(ServiceLog(log, "GetEndpoints"), endpointArray)
             /\ cfgEndpoint' = r.endpoint
             /\ cfgTokenPolicy' = r.token
             /\ IF r.retval # Good
                THEN connectInternal_cleanup(r.retval)
                ELSE IF PolicyDiffers(r.endpoint)
                THEN Call("disc", "ci")
                ELSE Call("css", "ci_session")
    /\ UNCHANGED <<clientVars, chanVars, connVars, cfgVars, localVars, callVars, now>>

\* Lines 626-629: after UA_Client_connectSession.
UA_Client_connectInternal_session ==
    /\ pc = "ci_session"
    /\ IF retval # Good
       THEN connectInternal_cleanup(retval)
       ELSE Return(Good)
    /\ UNCHANGED <<clientVars, chanVars, connVars, selVars, cfgVars, localVars,
                   callVars, log, now>>

\* Line 633: return retval after the cleanup's disconnect.
UA_Client_connectInternal_return ==
    /\ pc = "ci_ret"
    /\ Return(retval)
    /\ UNCHANGED <<clientVars, chanVars, connVars, selVars, cfgVars, localVars,
                   callVars, log, now>>

UA_Client_connectInternal ==
    \/ UA_Client_connectInternal_start
    \/ UA_Client_connectInternal_channel
    \/ UA_Client_connectInternal_select
    \/ UA_Client_connectInternal_session
    \/ UA_Client_connectInternal_return

(* ----------------------------------------------------------------------- *)
(* The public operations, the application and the clock                    *)
(* ----------------------------------------------------------------------- *)
UA_Client_connect ==
    /\ Enter("connect", "ci")
    /\ renew' = FALSE
    /\ UNCHANGED <<clientVars, chanVars, connVars, cfgEndpoint, cfgTokenPolicy,
                   cfgVars, now>>

UA_Client_connect_noSession ==
    /\ Enter("connect_noSession", "tcp")
    /\ renew' = FALSE
    /\ UNCHANGED <<clientVars, chanVars, connVars, cfgEndpoint, cfgTokenPolicy,
                   cfgVars, now>>

Call_UA_Client_disconnect ==
    /\ Enter("disconnect", "disc")
    /\ renew' = FALSE
    /\ UNCHANGED <<clientVars, chanVars, connVars, cfgEndpoint, cfgTokenPolicy,
                   cfgVars, now>>

\* The periodic renewal of the channel: openSecureChannel(client, true).
Call_openSecureChannel_renew ==
    /\ Enter("renew", "osc")
    /\ renew' = TRUE
    /\ UNCHANGED <<clientVars, chanVars, connVars, cfgEndpoint, cfgTokenPolicy,
                   cfgVars, now>>

\* The application queues an async service on its session.
SendAsyncRequest ==
    /\ Idle
    /\ state = UA_CLIENTSTATE_SESSION
    /\ pending < MaxPending
    /\ pending' = pending + 1
    /\ UNCHANGED <<state, authToken, requestId, requestHandle, nextChannelRenewal, connectStatus, chanVars,
                   connVars, selVars, cfgVars, localVars, ctlVars, callVars, log, now>>

\* The monotonic clock advances: between the public operations and while
\* one of them blocks (the receive of the ACK, the receive of the OPN
\* response, the run-iterate of the session loop).
Tick ==
    /\ pc \in {"idle", "hel_recv", "osc_recv", "css_loop"}
    /\ now < MaxNow
    /\ now' = now + 1
    /\ UNCHANGED <<clientVars, chanVars, connVars, selVars, cfgVars, localVars,
                   ctlVars, callVars, log>>

(* ----------------------------------------------------------------------- *)
(* The specification                                                       *)
(* ----------------------------------------------------------------------- *)
\* The configurations of the application: nothing configured (any mode, or
\* SignAndEncrypt required, or without an implementation of #None), an
\* endpoint and a token policy configured, and only one of the two.
Configs ==
    { [endpoint |-> ZeroEndpoint, token |-> ZeroToken, mode |-> 0,
       policies |-> {PolicyNone, PolicyBasic}],
      [endpoint |-> ZeroEndpoint, token |-> ZeroToken,
       mode |-> UA_MESSAGESECURITYMODE_SIGNANDENCRYPT,
       policies |-> {PolicyNone, PolicyBasic}],
      [endpoint |-> ZeroEndpoint, token |-> ZeroToken, mode |-> 0,
       policies |-> {PolicyBasic}],
      [endpoint |-> WithoutTokens(EndpointEncrypt), token |-> UserToken, mode |-> 0,
       policies |-> {PolicyNone, PolicyBasic}],
      [endpoint |-> WithoutTokens(EndpointEncrypt), token |-> ZeroToken, mode |-> 0,
       policies |-> {PolicyNone, PolicyBasic}],
      [endpoint |-> ZeroEndpoint, token |-> UserToken, mode |-> 0,
       policies |-> {PolicyNone, PolicyBasic}] }

\* The client after UA_Client_new and the configuration of the application.
Init ==
    /\ state = UA_CLIENTSTATE_DISCONNECTED
    /\ authToken = FALSE
    /\ requestId = 0
    /\ requestHandle = 0
    /\ nextChannelRenewal = 0
    /\ connectStatus = Good
    /\ pending = 0
    /\ chanPolicy = ""
    /\ chanMode = UA_MESSAGESECURITYMODE_INVALID
    /\ connState = UA_CONNECTION_CLOSED
    /\ socketOpen = FALSE
    /\ \E c \in Configs :
          /\ cfgEndpoint = c.endpoint
          /\ cfgTokenPolicy = c.token
          /\ cfgSecurityMode = c.mode
          /\ policies = c.policies
    /\ cfgPolicyUri = ""
    /\ cfgIdentity = TypeNull
    /\ timeout \in 1..MaxTimeout
    /\ now = 0
    /\ pc = "idle"
    /\ stack = <<>>
    /\ retval = Good
    /\ renew = FALSE
    /\ getEndpoints = FALSE
    /\ maxDate = 0
    /\ maxTime = 0
    /\ nowTime = 0
    /\ iterTimeout = 0
    /\ op = "none"
    /\ prevOp = "other"
    /\ entryState = UA_CLIENTSTATE_DISCONNECTED
    /\ entryConn = UA_CONNECTION_CLOSED
    /\ calls = 0
    /\ log = <<>>
    /\ epArray = <<>>

Next ==
    \/ UA_Client_connect
    \/ UA_Client_connect_noSession
    \/ Call_UA_Client_disconnect
    \/ Call_openSecureChannel_renew
    \/ SendAsyncRequest
    \/ Tick
    \/ UA_Client_connectInternal
    \/ UA_Client_connectTCPSecureChannel
    \/ HelAckHandshake
    \/ openSecureChannel
    \/ UA_Client_connectSession
    \/ UA_Client_disconnect

Spec == Init /\ [][Next]_vars

(* ----------------------------------------------------------------------- *)
(* Properties                                                              *)
(* ----------------------------------------------------------------------- *)
\* A public operation has returned; retval is its status and log what it did.
Returned(name) == pc = "idle" /\ op = name
ConnectReturned == pc = "idle" /\ op \in {"connect", "connect_noSession"}

\* C1: whenever UA_Client_connect returns a good status, from any state it
\* is called in, the state is exactly SESSION and the authentication token
\* is non-null.
C1_GoodConnectIsSession ==
    (Returned("connect") /\ retval = Good)
        => (state = UA_CLIENTSTATE_SESSION /\ authToken)

\* C2: whenever UA_Client_connect or UA_Client_connect_noSession returns a
\* non-good status, whatever step failed, the state on return is
\* DISCONNECTED.
C2_FailedConnectIsDisconnected ==
    (ConnectReturned /\ retval # Good) => state = UA_CLIENTSTATE_DISCONNECTED

\* A connect that failed in the session stage, after the channel was open.
C2_Witness ==
    /\ Returned("connect")
    /\ retval = BadTimeout
    /\ Count(log, "CreateSession") = 1
    /\ state = UA_CLIENTSTATE_DISCONNECTED

\* C3: whenever connect returns a non-good status, the channel is destroyed
\* and a transport opened during the call has been closed (also when the
\* failure is a timeout of the ACK with the transport still OPENING).
C3_FailedConnectHoldsNothing ==
    (ConnectReturned /\ retval # Good)
        => (chanPolicy = "" /\ (Count(log, "open") > 0 => ~socketOpen))

\* C4: the observer is invoked exactly once for every change of
\* client->state, with the new value, in the order of the changes.
C4_ObserverSeesEveryChange ==
    Values(Filter(log, {"obs"})) = Values(Filter(log, {"state"}))

\* C5: UA_Client_disconnect returns good and leaves the state DISCONNECTED
\* from any state, and a second consecutive call sends no CloseSession and no
\* CLO, does not close the transport again and does not fire the observer.
C5_DisconnectIdempotent ==
    Returned("disconnect")
        => /\ retval = Good
           /\ state = UA_CLIENTSTATE_DISCONNECTED
           /\ prevOp = "disconnect"
                 => Filter(log, {"CloseSession", "CLO", "close", "obs", "state"}) = <<>>

\* The second of two consecutive disconnects has returned.
C5_Witness ==
    /\ Returned("disconnect")
    /\ prevOp = "disconnect"
    /\ Kinds(log) = <<"cancel">>
    /\ state = UA_CLIENTSTATE_DISCONNECTED

\* UA_Client_disconnect runs as the rollback of a failure (and not as the
\* disconnect before the reconnect with another security policy).
Rollback == pc \in DiscPCs /\ Head(stack) # "ci"

\* C6 as stated: during a connect the state only moves upward until a failure
\* triggers the rollback, also when endpoint discovery selects an endpoint of
\* another security policy; during a disconnect it only moves downward.
C6_MonotonicUntilRollback ==
    [][ /\ (op \in {"connect", "connect_noSession"} /\ ~Rollback) => state' >= state
        /\ pc \in DiscPCs => state' <= state ]_vars

\* C6 as amended: during a connect the state only moves upward except while
\* the connect runs UA_Client_disconnect, as the rollback of a failure or as
\* the disconnect before the reconnect with the selected endpoint's security
\* policy; during a disconnect it only moves downward.
C6_MonotonicOutsideDisconnect ==
    [][ /\ pc \notin DiscPCs => state' >= state
        /\ pc \in DiscPCs => state' <= state ]_vars

\* A connect that reconnected with another security policy has succeeded.
C6_Witness ==
    /\ Returned("connect")
    /\ retval = Good
    /\ calls = 2
    /\ state = UA_CLIENTSTATE_SESSION
    /\ Values(Filter(log, {"state"})) = <<2, 3, 2, 0, 2, 3, 5>>

\* What a call of openSecureChannel leaves alone when it does nothing.
RenewFrame == <<state, authToken, requestId, requestHandle, nextChannelRenewal,
                connectStatus, pending, chanPolicy, chanMode, connState, socketOpen,
                log>>

\* C7: openSecureChannel(renew=true) called while now < nextChannelRenewal
\* returns success and changes nothing: no OPN message, no new nonce, the
\* request id, nextChannelRenewal and the state unchanged.
C7_RenewBeforeDeadlineIsNoop ==
    [][ (pc = "osc" /\ renew /\ now < nextChannelRenewal)
            => (pc' = Head(stack) /\ retval' = Good /\ UNCHANGED RenewFrame) ]_vars

\* A renewal on an open channel, before the deadline, has returned.
C7_Witness ==
    /\ Returned("renew")
    /\ state >= UA_CLIENTSTATE_SECURECHANNEL
    /\ now < nextChannelRenewal
    /\ retval = Good
    /\ log = <<>>

\* C8: a disconnect from the state SESSION produces, in this order, exactly
\* one CloseSessionRequest, one CLO, the close of the transport and the
\* cancellation of every pending async service, and ends DISCONNECTED.
C8_DisconnectFromSession ==
    (Returned("disconnect") /\ entryState = UA_CLIENTSTATE_SESSION)
        => /\ Kinds(Filter(log, {"CloseSession", "CLO", "close", "cancel"}))
                 = <<"CloseSession", "CLO", "close", "cancel">>
           /\ pending = 0
           /\ state = UA_CLIENTSTATE_DISCONNECTED

\* A disconnect from SESSION that cancelled one pending async service.
C8_Witness ==
    /\ Returned("disconnect")
    /\ entryState = UA_CLIENTSTATE_SESSION
    /\ \E i \in DOMAIN log : log[i].e = "cancel" /\ log[i].s = 1

\* C9: whenever the observer is invoked with DISCONNECTED, no async service
\* is outstanding: all have been cancelled before.
C9_ObserverSeesNoPendingWork ==
    \A i \in DOMAIN log :
        (log[i].e = "obs" /\ log[i].s = UA_CLIENTSTATE_DISCONNECTED) => log[i].p = 0

\* The observer saw DISCONNECTED after async services had been cancelled.
C9_Witness ==
    \E i, j \in DOMAIN log :
        /\ i < j
        /\ log[i].e = "cancel" /\ log[i].s > 0
        /\ log[j].e = "obs" /\ log[j].s = UA_CLIENTSTATE_DISCONNECTED

(* ----------------------------------------------------------------------- *)
(* selectEndpoint on its own: every response and configuration of a        *)
(* bounded family                                                          *)
(* ----------------------------------------------------------------------- *)
\* The sequences over S of length at most n.
SeqsUpTo(S, n) == UNION {[1..k -> S] : k \in 0..n}

Head3(profile, mode, policy) == [profile |-> profile, mode |-> mode, policy |-> policy]
Token2(policy, type) == [policy |-> policy, type |-> type]
Config4(mode, uri, identity, pols) ==
    [mode |-> mode, uri |-> uri, identity |-> identity, policies |-> pols]

\* Families of inputs, one per rule of the selection: the endpoints of a
\* response take their profile, mode and policy from `heads` and their token
\* policies from `toks`, the configuration is one of `cfgs`.
SelectFamilies ==
    { \* the transport profile
      [heads |-> {Head3("", 1, PolicyNone), Head3(binaryTransport, 1, PolicyNone),
                  Head3(OtherTransport, 1, PolicyNone)},
       toks |-> {Token2("", 0), Token2("", 4)},
       cfgs |-> {Config4(0, "", TypeNull, {PolicyNone, PolicyBasic})}],
      \* the security mode
      [heads |-> {Head3(binaryTransport, 0, PolicyNone),
                  Head3(binaryTransport, 2, PolicyBasic),
                  Head3(binaryTransport, 4, PolicyBasic)},
       toks |-> {Token2("", 0), Token2(PolicyOther, 0)},
       cfgs |-> {Config4(m, "", TypeAnonymous, {PolicyNone, PolicyBasic}) : m \in {0, 2, 3}}],
      [heads |-> {Head3(binaryTransport, 1, PolicyNone),
                  Head3(binaryTransport, 3, PolicyBasic)},
       toks |-> {Token2("", 0), Token2(PolicyBasic, 1)},
       cfgs |-> {Config4(m, "", TypeUserName, {PolicyNone, PolicyBasic}) : m \in {0, 1, 3}}],
      \* the security policy
      [heads |-> {Head3(binaryTransport, 1, PolicyNone),
                  Head3(binaryTransport, 1, PolicyBasic),
                  Head3(binaryTransport, 1, PolicyOther)},
       toks |-> {Token2("", 0), Token2(PolicyBasic, 0)},
       cfgs |-> {Config4(0, u, TypeNull, p) :
                    u \in {"", PolicyBasic},
                    p \in {{PolicyNone, PolicyBasic}, {PolicyNone}}}],
      \* the token types
      [heads |-> {Head3(binaryTransport, 1, PolicyNone), Head3("", 0, PolicyNone)},
       toks |-> {Token2("", 0), Token2("", 1)},
       cfgs |-> {Config4(0, "", t, {PolicyNone}) :
                    t \in {TypeNull, TypeAnonymous, TypeUserName, TypeX509}}],
      [heads |-> {Head3(binaryTransport, 1, PolicyNone), Head3("", 0, PolicyNone)},
       toks |-> {Token2("", 2), Token2("", 3)},
       cfgs |-> {Config4(0, "", t, {PolicyNone}) :
                    t \in {TypeNull, TypeX509, TypeIssued}}] }

\* The GetEndpointsResponses of a family.
FamilyArrays(f) ==
    SeqsUpTo({ [profile |-> h.profile, mode |-> h.mode, policy |-> h.policy,
                tokens |-> ts] : h \in f.heads, ts \in SeqsUpTo(f.toks, MaxTokens) },
             MaxEndpoints)

\* A connected client that has just received the response epArray.
InitSelect ==
    /\ \E f \in SelectFamilies :
          /\ \E c \in f.cfgs :
                /\ cfgSecurityMode = c.mode
                /\ cfgPolicyUri = c.uri
                /\ cfgIdentity = c.identity
                /\ policies = c.policies
          /\ epArray \in FamilyArrays(f)
    /\ cfgEndpoint = ZeroEndpoint
    /\ cfgTokenPolicy = ZeroToken
    /\ state = UA_CLIENTSTATE_SECURECHANNEL
    /\ authToken = FALSE
    /\ requestId = 1
    /\ requestHandle = 0
    /\ nextChannelRenewal = 1
    /\ connectStatus = Good
    /\ pending = 0
    /\ chanPolicy = PolicyNone
    /\ chanMode = UA_MESSAGESECURITYMODE_NONE
    /\ connState = UA_CONNECTION_ESTABLISHED
    /\ socketOpen = TRUE
    /\ timeout = 1
    /\ now = 0
    /\ pc = "select"
    /\ stack = <<>>
    /\ retval = Good
    /\ renew = FALSE
    /\ getEndpoints = TRUE
    /\ maxDate = 0
    /\ maxTime = 0
    /\ nowTime = 0
    /\ iterTimeout = 0
    /\ op = "connect"
    /\ prevOp = "other"
    /\ entryState = UA_CLIENTSTATE_DISCONNECTED
    /\ entryConn = UA_CONNECTION_CLOSED
    /\ calls = 1
    /\ log = <<>>

\* selectEndpoint runs on the response.
selectEndpoint_apply ==
    /\ pc = "select"
    /\ \E copyFail \in 0..2 :
          LET r == selectEndpoint(epArray, copyFail) IN
          /\ cfgEndpoint' = r.endpoint
          /\ cfgTokenPolicy' = r.token
          /\ retval' = r.retval
    /\ pc' = "selected"
    /\ UNCHANGED <<clientVars, chanVars, connVars, epArray, cfgVars, localVars, stack,
                   callVars, log, now>>

NextSelect == selectEndpoint_apply

SpecSelect == InitSelect /\ [][NextSelect]_vars

\* The rules of the claim: an endpoint passes the endpoint filter, a token
\* policy is acceptable.
EndpointPasses(e) ==
    /\ e.profile \in {"", binaryTransport}
    /\ e.mode \in 1..3
    /\ cfgSecurityMode # 0 => e.mode = cfgSecurityMode
    /\ cfgPolicyUri # "" => e.policy = cfgPolicyUri
    /\ e.policy \in policies

IdentityOf(type) ==
    CASE type = 0 -> {TypeAnonymous, TypeNull}
      [] type = 1 -> {TypeUserName}
      [] type = 2 -> {TypeX509}
      [] type = 3 -> {TypeIssued}
      [] OTHER -> {}

TokenAcceptable(t) ==
    /\ t.policy = "" \/ t.policy \in policies
    /\ t.type <= 3
    /\ cfgIdentity \in IdentityOf(t.type)

\* The (endpoint, token policy) index pairs of epArray that pass both filters,
\* and the first of them in list order.
AcceptedPairs ==
    { p \in UNION {{<<i, j>> : j \in DOMAIN epArray[i].tokens} : i \in DOMAIN epArray} :
        EndpointPasses(epArray[p[1]]) /\ TokenAcceptable(epArray[p[1]].tokens[p[2]]) }

Before(p, q) == p[1] < q[1] \/ (p[1] = q[1] /\ p[2] <= q[2])

FirstAccepted == CHOOSE p \in AcceptedPairs : \A q \in AcceptedPairs : Before(p, q)

\* C10: a successful selection stores the first accepted (endpoint, token
\* policy) pair in list order, the endpoint with an empty token list; and a
\* response with an accepted pair is not refused for want of a match.
C10_FirstAcceptedPairIsStored ==
    pc = "selected" =>
        /\ retval = Good =>
              /\ AcceptedPairs # {}
              /\ cfgEndpoint = [epArray[FirstAccepted[1]] EXCEPT !.tokens = <<>>]
              /\ cfgTokenPolicy = epArray[FirstAccepted[1]].tokens[FirstAccepted[2]]
              /\ cfgEndpoint.tokens = <<>>
        /\ AcceptedPairs # {} => retval # BadInternalError

\* A selection whose first endpoint passes the endpoint filter without an
\* acceptable token policy and whose second endpoint is accepted with its
\* second token policy.
C10_Witness ==
    /\ pc = "selected"
    /\ retval = Good
    /\ Len(epArray) = 2
    /\ EndpointPasses(epArray[1])
    /\ epArray[1].tokens # <<>>
    /\ FirstAccepted = <<2, 2>>


(* ----------------------------------------------------------------------- *)
(* Properties of the second group                                          *)
(* ----------------------------------------------------------------------- *)
\* C11: when no endpoint of the response passes the endpoint filter, or none
\* of the passing endpoints has an acceptable token policy, the selection
\* fails with BadInternalError and the enclosing connect returns that error
\* with the state DISCONNECTED.
C11_NoMatchIsInternalError ==
    (Returned("connect") /\ Count(log, "Found") > 0 /\ AcceptedPairs = {})
        => (retval = BadInternalError /\ state = UA_CLIENTSTATE_DISCONNECTED)

\* The server's only endpoint has mode 2 while the configuration requires
\* mode 3: the connect has returned.
C11_Witness ==
    /\ Returned("connect")
    /\ Count(log, "Found") = 1
    /\ cfgSecurityMode = UA_MESSAGESECURITYMODE_SIGNANDENCRYPT
    /\ epArray = <<EndpointSign>>
    /\ retval = BadInternalError
    /\ state = UA_CLIENTSTATE_DISCONNECTED


\* C12: a connect whose endpoint discovery selects an endpoint of another
\* security policy than the open channel's disconnects and invokes itself
\* once: the second pass finds the endpoint configured, sends no GetEndpoints
\* and does not recurse, so one connect opens at most two channels and sends
\* at most one GetEndpoints; and the session is only requested on a channel of
\* the selected endpoint's policy.
C12_ReconnectsOnce ==
    op = "connect" =>
        /\ calls <= 2
        /\ Count(log, "GetEndpoints") <= 1
        /\ Count(log, "open") <= 2
        /\ Count(log, "OPN") <= 2
        /\ (calls = 2 /\ pc # "ci") =>
              /\ ~getEndpoints
              /\ Count(log, "Found") = 1
              /\ Kinds(Filter(log, {"GetEndpoints", "Found", "cancel"}))[1] = "GetEndpoints"
        /\ (Count(log, "Found") = 1 /\ pc \in {"css", "css_loop"}) =>
              cfgEndpoint.policy = chanPolicy

\* The second pass of a connect requests the session on its second channel.
C12_Witness ==
    /\ op = "connect"
    /\ calls = 2
    /\ pc = "css_loop"
    /\ Count(log, "GetEndpoints") = 1
    /\ Count(log, "open") = 2
    /\ Count(log, "OPN") = 2
    /\ chanPolicy = PolicyBasic


\* C13: a failure of openSecureChannel(renew=true) on a still-open channel
\* (for example the OPN send failing) does not demote the state and does not
\* disconnect the client: the state stays >= SECURECHANNEL and the renewal
\* deadline is left in the future.
C13_FailedRenewKeepsChannel ==
    (/\ Returned("renew")
     /\ retval # Good
     /\ entryState >= UA_CLIENTSTATE_SECURECHANNEL
     /\ entryConn = UA_CONNECTION_ESTABLISHED)
        => /\ state >= UA_CLIENTSTATE_SECURECHANNEL
           /\ Count(log, "CLO") = 0
           /\ Count(log, "close") = 0
           /\ nextChannelRenewal > now


\* What a connect leaves alone when it does nothing.
ConnectFrame == <<state, authToken, requestId, requestHandle, nextChannelRenewal,
                  connectStatus, pending, chanPolicy, chanMode, connState,
                  socketOpen, cfgEndpoint, cfgTokenPolicy, log>>

\* C14: a connect or connect_noSession called with state >= CONNECTED returns
\* success immediately and has no effect: no transport is opened, no message
\* is sent, and the state, the channel and the request counters are unchanged.
C14_ConnectedConnectIsNoop ==
    [][ (pc \in {"ci", "tcp"} /\ state >= UA_CLIENTSTATE_CONNECTED)
            => (pc' = "idle" /\ retval' = Good /\ UNCHANGED ConnectFrame) ]_vars

\* A connect_noSession called on a client with a session has returned.
C14_Witness ==
    /\ Returned("connect_noSession")
    /\ entryState = UA_CLIENTSTATE_SESSION
    /\ state = UA_CLIENTSTATE_SESSION
    /\ retval = Good
    /\ log = <<>>
    /\ requestId > 0


\* C15 as stated: in every reachable state, the intermediate states inside
\* connect and disconnect included, the authentication token is non-null if
\* and only if the state is >= SESSION.
C15_TokenIffSession ==
    authToken <=> state >= UA_CLIENTSTATE_SESSION

\* C15 as amended: whenever no operation is running (connect,
\* connect_noSession, disconnect or a renewal has returned), the
\* authentication token is non-null if and only if the state is >= SESSION;
\* and in every state a state >= SESSION has a non-null token.
C15_TokenIffSessionWhenIdle ==
    /\ Idle => (authToken <=> state >= UA_CLIENTSTATE_SESSION)
    /\ state >= UA_CLIENTSTATE_SESSION => authToken

\* A disconnect from SESSION has returned, the token cleared.
C15_Witness ==
    /\ Returned("disconnect")
    /\ entryState = UA_CLIENTSTATE_SESSION
    /\ Count(log, "CloseSession") = 1
    /\ ~authToken
    /\ state = UA_CLIENTSTATE_DISCONNECTED


\* C16: when the chunk received in reply to HEL cannot be decoded as an ACK,
\* or processing the ACK fails, the client is disconnected, the handshake
\* returns a non-good status and the state is not set to CONNECTED during
\* that connect.
C16_RejectedAckFailsHandshake ==
    (op \in {"connect", "connect_noSession"} /\ Count(log, "BadACK") > 0)
        => /\ pc = "tcp_hel" =>
                 /\ retval \in {BadConnectionClosed, BadUnexpected}
                 /\ state = UA_CLIENTSTATE_DISCONNECTED
           /\ \A k, i \in DOMAIN log :
                 (k < i /\ log[k].e = "BadACK" /\ log[i].e = "state")
                     => log[i].s # UA_CLIENTSTATE_CONNECTED


\* C17 as stated, its first part: while the state is >= SECURECHANNEL,
\* nextChannelRenewal is strictly in the future of the monotonic clock.  (Its
\* second part, the push of the deadline by every OPN request sent, is kept
\* by the amended statement below.)
C17_DeadlineAlwaysInFuture ==
    state >= UA_CLIENTSTATE_SECURECHANNEL => nextChannelRenewal > now

\* C17 as amended: every openSecureChannel call that sends an OPN request
\* sets nextChannelRenewal to now + 2*timeout, strictly in the future for the
\* positive timeouts of the model, before it starts waiting for the response; a renewal sends its OPN only once the
\* clock has reached the deadline (nextChannelRenewal <= now), so the deadline
\* of an open channel is not always in the future.
C17_SentOpnPushesDeadline ==
    [][ (pc = "osc" /\ Count(log', "OPN") > Count(log, "OPN"))
            => /\ nextChannelRenewal' = now + 2 * timeout
               /\ nextChannelRenewal' > now
               /\ pc' = "osc_recv"
               /\ renew => nextChannelRenewal <= now ]_vars

\* A renewal of an open channel has sent its OPN and waits for the response.
C17_Witness ==
    /\ op = "renew"
    /\ pc = "osc_recv"
    /\ state >= UA_CLIENTSTATE_SECURECHANNEL
    /\ Count(log, "OPN") = 1
    /\ nextChannelRenewal = now + 2 * timeout


\* The messages of the log that carry a request id, and the opens of the
\* transport that separate one channel from the next.
IdMessages(lg) == Filter(lg, {"OPN", "CLO"})
ChannelEvents(lg) == Filter(lg, {"OPN", "CLO", "open"})

\* Between two opens the request ids of the messages increase strictly.
IdsIncrease(lg) ==
    LET f == ChannelEvents(lg) IN
    \A i \in 1..(Len(f) - 1) :
        (f[i].e # "open" /\ f[i + 1].e # "open") => f[i + 1].s > f[i].s

C19_DeadlineDecidesFirst ==
    [][ (pc = "css_loop" /\ now' = now) =>
            /\ now >= maxTime => (pc' = Head(stack) /\ retval' = BadTimeout)
            /\ (pc' # "css_loop" /\ retval' = Good) => state = UA_CLIENTSTATE_SESSION
      ]_vars

\* C19 as amended: a round of the loop is decided in the order: the state is
\* SESSION gives success, whatever the clock; else the clock read at the end
\* of the round before is beyond the deadline (nowTime > maxTime) gives
\* BadTimeout; else a failure of run-iterate or a non-good connectStatus is
\* returned; else the loop goes on.  Success is returned only with the state
\* SESSION, also when the session was reached at or after the deadline.
C19_SessionDecidesFirst ==
    [][ (pc = "css_loop" /\ now' = now) =>
            /\ state = UA_CLIENTSTATE_SESSION =>
                  (pc' = Head(stack) /\ retval' = Good /\ UNCHANGED state)
            /\ (state # UA_CLIENTSTATE_SESSION /\ nowTime > maxTime) =>
                  (pc' = Head(stack) /\ retval' = BadTimeout)
            /\ (state # UA_CLIENTSTATE_SESSION /\ nowTime <= maxTime
                  /\ pc' # "css_loop") => retval' \notin {Good, BadTimeout}
            /\ (pc' # "css_loop" /\ retval' = Good) => state = UA_CLIENTSTATE_SESSION
      ]_vars

\* The session was activated in a round that ended after the deadline; the
\* loop is about to return success.
C19_Witness ==
    /\ op = "connect"
    /\ pc = "css_loop"
    /\ state = UA_CLIENTSTATE_SESSION
    /\ nowTime > maxTime
    /\ retval = Good


\* What a returned UA_Client_disconnect has sent, by the state and the
\* transport it was entered with, and what it leaves of the token, the
\* channel and the state.
DisconnectSentByEntry ==
    /\ Count(log, "CloseSession") =
          (IF entryState >= UA_CLIENTSTATE_SESSION THEN 1 ELSE 0)
    /\ Count(log, "CLO") =
          (IF entryState >= UA_CLIENTSTATE_SECURECHANNEL THEN 1 ELSE 0)
    /\ Count(log, "close") =
          (IF entryConn \notin {UA_CONNECTION_CLOSED, UA_CONNECTION_OPENING}
           THEN 1 ELSE 0)
    /\ ~authToken
    /\ chanPolicy = ""
    /\ state = UA_CLIENTSTATE_DISCONNECTED

\* C20 as stated: UA_Client_disconnect sends a CloseSessionRequest iff the
\* state at entry is at least SESSION, a CLO iff it is at least SECURECHANNEL,
\* calls the transport's close iff the transport is neither closed nor
\* opening, and in every case leaves the token null, the request-handle
\* counter at 0 and the state DISCONNECTED.
C20_DisconnectResetsHandle ==
    Returned("disconnect") => (DisconnectSentByEntry /\ requestHandle = 0)

\* C20 as amended: the same, but the request-handle counter is set to 0
\* before the CLO is built, so it is 1 after a disconnect that sent a CLO
\* and 0 after one that did not.
C20_DisconnectRestartsHandle ==
    Returned("disconnect") =>
        (DisconnectSentByEntry /\ requestHandle = Count(log, "CLO"))

\* A disconnect of a client with a session has returned: both requests were
\* sent, the transport was closed and the counter stands at 1.
C20_Witness ==
    /\ Returned("disconnect")
    /\ entryState = UA_CLIENTSTATE_SESSION
    /\ entryConn = UA_CONNECTION_ESTABLISHED
    /\ Kinds(Filter(log, {"CloseSession", "CLO", "close"}))
          = <<"CloseSession", "CLO", "close">>
    /\ requestHandle = 1


(* ----------------------------------------------------------------------- *)
(* Properties of the third group                                           *)
(* ----------------------------------------------------------------------- *)
\* Neither an endpoint nor a token policy is configured.
NothingConfigured == cfgEndpoint = ZeroEndpoint /\ cfgTokenPolicy = ZeroToken

\* This step issues a GetEndpoints request.
IssuesGetEndpoints == Count(log', "GetEndpoints") > Count(log, "GetEndpoints")

\* This operation has lifted the client to the state SECURECHANNEL.
ChannelOpenedHere ==
    \E i \in DOMAIN log :
        log[i].e = "state" /\ log[i].s = UA_CLIENTSTATE_SECURECHANNEL

\* A GetEndpoints request is issued only by UA_Client_connect, only once,
\* and only with nothing configured (the configuration is that of the entry
\* until the selection that follows the request).
GetEndpointsOnlyUnconfigured ==
    IssuesGetEndpoints =>
        /\ op = "connect"
        /\ NothingConfigured
        /\ Count(log, "GetEndpoints") = 0

\* C21 as stated: UA_Client_connect issues GetEndpoints if and only if
\* neither the endpoint nor the token policy is configured at its entry;
\* a configuration with one of the two never triggers it and
\* UA_Client_connect_noSession never issues it.
C21_GetEndpointsIffUnconfigured ==
    [][ /\ GetEndpointsOnlyUnconfigured
        /\ (Returned("connect") /\ NothingConfigured)'
              => Count(log', "GetEndpoints") > 0
      ]_vars

\* C21 as amended: GetEndpoints is issued (once) if and only if nothing is
\* configured at the entry, the client is below CONNECTED at the entry and
\* the call gets its SecureChannel opened; a connect on a connected client
\* or one whose channel cannot be opened issues none.
C21_GetEndpointsIffUnconfiguredAndOpened ==
    [][ /\ GetEndpointsOnlyUnconfigured
        /\ IssuesGetEndpoints =>
              (entryState < UA_CLIENTSTATE_CONNECTED /\ ChannelOpenedHere)
        /\ (Returned("connect") /\ NothingConfigured
              /\ Count(log, "GetEndpoints") = 0)'
              => (entryState >= UA_CLIENTSTATE_CONNECTED \/ ~ChannelOpenedHere)'
      ]_vars

\* A connect with nothing configured has opened its channel, asked for the
\* endpoints and has its session.
C21_Witness ==
    /\ Returned("connect")
    /\ retval = Good
    /\ Count(log, "GetEndpoints") = 1
    /\ ChannelOpenedHere
    /\ state = UA_CLIENTSTATE_SESSION


\* The policy URI a connect binds to a channel without a policy: that of
\* the configured endpoint, #None when it is empty.
RequiredPolicyUri ==
    IF cfgEndpoint.policy = "" THEN PolicyNone ELSE cfgEndpoint.policy

\* The channel has no policy and the client no implementation of the
\* required one.
PolicyMissing == chanPolicy = "" /\ RequiredPolicyUri \notin policies

\* C22: a connect with no policy bound on the channel and no implementation
\* of the required policy URI opens no transport, sends neither HEL nor OPN
\* and returns BadInternalError.
C22_MissingPolicyFailsBeforeOpen ==
    (op \in {"connect", "connect_noSession"} /\ PolicyMissing) =>
        /\ Count(log, "open") = 0
        /\ Count(log, "HEL") = 0
        /\ Count(log, "OPN") = 0
        /\ connState = UA_CONNECTION_CLOSED
        /\ pc = "idle" => retval = BadInternalError

\* A connect has returned BadInternalError for the missing policy.
C22_Witness ==
    /\ Returned("connect")
    /\ PolicyMissing
    /\ retval = BadInternalError
    /\ log # <<>>
    /\ state = UA_CLIENTSTATE_DISCONNECTED


(* ----------------------------------------------------------------------- *)
(* The session loop with the timeouts an application may configure          *)
(* ----------------------------------------------------------------------- *)
\* The largest configured timeout and the advance of the clock while
\* UA_Client_run_iterate blocks, in milliseconds.
MaxTimeoutMs == 70000
BlockMs == 30000

\* config.timeout is a UA_UInt32 of milliseconds: values below, at and above
\* the range of the UA_UInt16 of line 532.
TimeoutValues == {1, BlockMs, 65535, 65536, MaxTimeoutMs}

\* A client with its SecureChannel open enters UA_Client_connectSession.
InitTimeout ==
    /\ timeout \in TimeoutValues
    /\ authToken \in BOOLEAN
    /\ state = UA_CLIENTSTATE_SECURECHANNEL
    /\ requestId = 1
    /\ requestHandle = 0
    /\ nextChannelRenewal = 1
    /\ connectStatus = Good
    /\ pending = 0
    /\ chanPolicy = PolicyNone
    /\ chanMode = UA_MESSAGESECURITYMODE_NONE
    /\ connState = UA_CONNECTION_ESTABLISHED
    /\ socketOpen = TRUE
    /\ cfgEndpoint = WithoutTokens(EndpointNone)
    /\ cfgTokenPolicy = AnonToken
    /\ cfgSecurityMode = 0
    /\ cfgPolicyUri = ""
    /\ cfgIdentity = TypeNull
    /\ policies = {PolicyNone}
    /\ now = 0
    /\ pc = "css"
    /\ stack = <<"returned">>
    /\ retval = Good
    /\ renew = FALSE
    /\ getEndpoints = FALSE
    /\ maxDate = 0
    /\ maxTime = 0
    /\ nowTime = 0
    /\ iterTimeout = 0
    /\ op = "connect"
    /\ prevOp = "other"
    /\ entryState = UA_CLIENTSTATE_DISCONNECTED
    /\ entryConn = UA_CONNECTION_CLOSED
    /\ calls = 1
    /\ log = <<>>
    /\ epArray = <<>>

\* The clock advances while UA_Client_run_iterate blocks.
TickTimeout ==
    /\ pc = "css_loop"
    /\ now <= MaxTimeoutMs
    /\ now' = now + BlockMs
    /\ UNCHANGED <<clientVars, chanVars, connVars, selVars, cfgVars, localVars,
                   ctlVars, callVars, log>>

NextTimeout ==
    \/ UA_Client_connectSession
    \/ TickTimeout

SpecTimeout == InitTimeout /\ [][NextTimeout]_vars

\* C23: in every round of the loop of UA_Client_connectSession the timeout
\* handed to UA_Client_run_iterate is the time that remains to the deadline
\* (maxTime - nowTime, in milliseconds), for every configured timeout.
C23_IterateTimeoutIsRemainingTime ==
    [][ (pc = "css_loop" /\ now' = now /\ state # UA_CLIENTSTATE_SESSION
            /\ nowTime <= maxTime)
          => iterTimeout' = maxTime - nowTime
      ]_vars


(* ----------------------------------------------------------------------- *)
(* The client under a clock that keeps advancing                           *)
(* ----------------------------------------------------------------------- *)
\* The last instant at which an operation that connects may start.
LiveClock == 8

\* One connect waits in at most three loops with a deadline (the OPN
\* response loop, once more after the reconnect, the session loop), each for
\* at most timeout + 1 ticks: the clock can advance through all of them.
CanFinish == now + 3 * (timeout + 1) <= LiveClock

ConnectLive == CanFinish /\ UA_Client_connect

Connect_noSessionLive == CanFinish /\ UA_Client_connect_noSession

\* Every call the program makes outside the file returns: the program takes
\* its next step.
ProgramStep ==
    \/ UA_Client_connectInternal
    \/ UA_Client_connectTCPSecureChannel
    \/ HelAckHandshake
    \/ openSecureChannel
    \/ UA_Client_connectSession
    \/ UA_Client_disconnect

\* The monotonic clock advances while a loop waits for its deadline.
TickLive ==
    /\ \/ pc = "osc_recv" /\ now <= maxDate
       \/ pc = "css_loop" /\ now <= maxTime
    /\ now' = now + 1
    /\ UNCHANGED <<clientVars, chanVars, connVars, selVars, cfgVars, localVars,
                   ctlVars, callVars, log>>

NextLive ==
    \/ ConnectLive
    \/ Connect_noSessionLive
    \/ Call_UA_Client_disconnect
    \/ ProgramStep
    \/ TickLive

\* What the scheduling of the code guarantees, whatever the server sends or
\* fails to send: outside the two loops the program takes its next step; the
\* OPN response loop comes to its test of the deadline; the session loop
\* comes to its tests and reads the clock again.
StepOutsideLoops == pc \notin {"osc_recv", "css_loop"} /\ ProgramStep

ResponseLoopTest == ResponseDeadlinePassed /\ openSecureChannel_receive

SessionLoopTest ==
    /\ state = UA_CLIENTSTATE_SESSION \/ SessionDeadlinePassed \/ nowTime # now
    /\ UA_Client_connectSession_iterate

SpecLive ==
    /\ Init
    /\ [][NextLive]_vars
    /\ WF_vars(StepOutsideLoops)
    /\ WF_vars(ResponseLoopTest)
    /\ WF_vars(SessionLoopTest)
    /\ WF_vars(TickLive)

\* C24: every call of UA_Client_connect returns, when every call outside
\* the file returns and the clock keeps advancing: the OPN response loop and
\* the session loop end once their deadline has passed.
C24_ConnectReturns ==
    (op = "connect" /\ pc # "idle") ~> (pc = "idle")

\* A connect has returned because the deadline of its session loop passed
\* without an answer of the server.
C24_Witness ==
    /\ Returned("connect")
    /\ retval = BadTimeout
    /\ Count(log, "CreateSession") = 1
    /\ state = UA_CLIENTSTATE_DISCONNECTED


\* C25: after a UA_Client_connect that asked for the endpoints returns a
\* good status, the SecureChannel has the security policy and the security
\* mode of the selected endpoint stored in the configuration.
C25_ChannelMatchesSelectedEndpoint ==
    (Returned("connect") /\ retval = Good /\ Count(log, "GetEndpoints") = 1)
        => /\ chanPolicy = cfgEndpoint.policy
           /\ chanMode = cfgEndpoint.mode


\* The values the state observer was called with during this operation,
\* after the state the operation was entered with.
ObserverCalls == <<entryState>> \o Values(Filter(log, {"obs"}))

\* C26: the state observer is never called twice in a row with the same
\* state, over any sequence of the public operations.  Between two
\* operations the state is the value of the last call (or the initial
\* DISCONNECTED), so the calls of an operation are compared with the state
\* at its entry and with each other.
C26_ObserverNeverRepeats ==
    /\ \A i \in 1..(Len(ObserverCalls) - 1) : ObserverCalls[i] # ObserverCalls[i + 1]
    /\ pc = "idle" => state = ObserverCalls[Len(ObserverCalls)]

\* The observer was called after a direct write of client->state by
\* UA_Client_disconnect: SESSION, then DISCONNECTED.
C26_Witness ==
    /\ Returned("disconnect")
    /\ entryState = UA_CLIENTSTATE_SESSION
    /\ Values(Filter(log, {"state"})) =
          <<UA_CLIENTSTATE_SECURECHANNEL, UA_CLIENTSTATE_CONNECTED,
            UA_CLIENTSTATE_DISCONNECTED>>
    /\ ObserverCalls = <<UA_CLIENTSTATE_SESSION, UA_CLIENTSTATE_DISCONNECTED>>


\* C27: between the public operations the client is never half open: when
\* an operation has returned, the state is DISCONNECTED or at least
\* SECURECHANNEL, never WAITING_FOR_ACK or CONNECTED.
C27_NeverHalfOpenBetweenCalls ==
    pc = "idle" =>
        \/ state = UA_CLIENTSTATE_DISCONNECTED
        \/ state >= UA_CLIENTSTATE_SECURECHANNEL

\* A connect that had reached CONNECTED and then failed to open its
\* SecureChannel has returned with the client DISCONNECTED.
C27_Witness ==
    /\ ConnectReturned
    /\ retval # Good
    /\ Values(Filter(log, {"state"})) =
          <<UA_CLIENTSTATE_CONNECTED, UA_CLIENTSTATE_DISCONNECTED>>
    /\ state = UA_CLIENTSTATE_DISCONNECTED

====
